---- MODULE Spec2Model ----
(***************************************************************************)
(* Model of the dependency resolver of src/src/flash/downstream/tasks.py:  *)
(* resolve_plan (a recursive backtracking search, dfs) and its three entry *)
(* points task1_check_single, task2_install_single_with_upgrade and        *)
(* task3_install_multi_with_upgrade, run against a knowledge-graph client  *)
(* (KGClient.get_versions / get_requires).                                 *)
(*                                                                         *)
(* The recursion of dfs is an explicit stack of frames. Python passes the  *)
(* queue list by reference and pops it in place, but every child call gets *)
(* a fresh copy (new_queue = list(queue_state)) and plan_state is never    *)
(* written (new_plan = dict(plan_state)), so frames hold values.           *)
(*                                                                         *)
(* Package names are sequences of one-character strings, version strings   *)
(* are integer codes, a SpecifierSet is its set of clauses                 *)
(* (str(SpecifierSet) is canonical, so the set is also the visited key).   *)
(***************************************************************************)
EXTENDS Integers, Sequences, FiniteSets, TLC

\* ------------------------------------------------------------ bounds
MaxVer == 3
MaxTargets == 2
MaxReqLines == 1
MaxNameLen == 3
MaxListLen == 3

\* ------------------------------------------------- program constants
\* tasks.py sets MAX_QUEUE = 2000 and MAX_PACKAGES = 800; the model scales
\* both down to the size of its package universe so that both caps trip.
MAX_QUEUE == 3
MAX_PACKAGES == 3
RETRIES == 3

\* --------------------------------------------------------- utilities
Last(s) == s[Len(s)]
Front(s) == SubSeq(s, 1, Len(s) - 1)
Range(s) == {s[i] : i \in DOMAIN s}

\* the element of a one-element set; {F(x) : x \in {e}} is F of the value of e,
\* e evaluated once (a local variable of the code)
TheOne(S) == CHOOSE r \in S : TRUE

RECURSIVE SeqFilterOut(_, _)
\* s without the elements equal to x, order kept
SeqFilterOut(s, x) ==
  IF s = <<>> THEN <<>>
  ELSE IF Head(s) = x THEN SeqFilterOut(Tail(s), x)
  ELSE <<Head(s)>> \o SeqFilterOut(Tail(s), x)

\* ------------------------------------------------------------- names
PkgA == <<"a">>
PkgB == <<"b">>
PkgC == <<"c">>
PkgD == <<"d">>
RawA == <<"A">>
RawB == <<" ", "B">>

IsSpace(c) == c = " "

RECURSIVE lstrip(_)
lstrip(s) == IF s # <<>> /\ IsSpace(Head(s)) THEN lstrip(Tail(s)) ELSE s

RECURSIVE rstrip(_)
rstrip(s) == IF s # <<>> /\ IsSpace(Last(s)) THEN rstrip(Front(s)) ELSE s

strip(s) == rstrip(lstrip(s))

LowerChar(c) ==
  CASE c = "A" -> "a"
    [] c = "B" -> "b"
    [] c = "C" -> "c"
    [] c = "D" -> "d"
    [] OTHER -> c

RECURSIVE lower(_)
lower(s) == IF s = <<>> THEN <<>> ELSE <<LowerChar(Head(s))>> \o lower(Tail(s))

RECURSIVE replace(_, _, _)
replace(s, old, new) ==
  IF s = <<>> THEN <<>>
  ELSE <<IF Head(s) = old THEN new ELSE Head(s)>> \o replace(Tail(s), old, new)

normalize_name(name) == replace(lower(strip(name)), "_", "-")

\* --------------------------------------------------------- versions
\* A version string is a code: 1 .. MaxVer are the well-formed strings "1",
\* "2", ...; 10 + n is the string "n.0", another spelling of version n; a
\* negative code is a string that is no version (MalformedText gives its
\* characters); 0 is None.
Versions == 1 .. MaxVer

WellFormed(v) == v >= 1

\* Version(v) of a well-formed string
Version(v) == IF v > 10 THEN v - 10 ELSE v

MalformedText(v) ==
  CASE v = -1 -> <<"x">>
    [] v = -2 -> <<"x", "1">>
    [] OTHER -> <<"1", "x">>

\* ord() of the characters of the version strings
Ord(c) ==
  CASE c = "." -> 46
    [] c = "1" -> 49
    [] OTHER -> 120

RECURSIVE StrLess(_, _)
\* s < t on str
StrLess(s, t) ==
  IF t = <<>> THEN FALSE
  ELSE IF s = <<>> THEN TRUE
  ELSE IF Ord(Head(s)) # Ord(Head(t)) THEN Ord(Head(s)) < Ord(Head(t))
  ELSE StrLess(Tail(s), Tail(t))

\* faulty variant: a string that is no version sorts below every version
VersionKey_MalformedLowest(v) ==
  IF WellFormed(v) THEN [tag |-> 1, version |-> Version(v), text |-> <<>>]
  ELSE [tag |-> 0, version |-> 0, text |-> MalformedText(v)]

\* the sort key: (0, Version(v)), or (1, v) on InvalidVersion
VersionKey(v) ==
  IF WellFormed(v) THEN [tag |-> 0, version |-> Version(v), text |-> <<>>]
  ELSE [tag |-> 1, version |-> 0, text |-> MalformedText(v)]

\* tuple comparison k1 < k2
KeyLess(k1, k2) ==
  \/ k1.tag < k2.tag
  \/ k1.tag = k2.tag /\ k1.version < k2.version
  \/ k1.tag = k2.tag /\ k1.version = k2.version /\ StrLess(k1.text, k2.text)

KeyGE(k1, k2) == ~KeyLess(k1, k2)

RECURSIVE InsertDescending(_, _)
\* v put after every element whose key is >= its own (sorted is stable)
InsertDescending(v, s) ==
  IF s = <<>> THEN <<v>>
  ELSE IF KeyGE(VersionKey(Head(s)), VersionKey(v))
       THEN <<Head(s)>> \o InsertDescending(v, Tail(s))
       ELSE <<v>> \o s

RECURSIVE sort_versions(_)
sort_versions(versions) ==
  IF versions = <<>> THEN <<>>
  ELSE InsertDescending(Last(versions), sort_versions(Front(versions)))

RECURSIVE reversed(_)
reversed(s) == IF s = <<>> THEN <<>> ELSE Append(reversed(Tail(s)), Head(s))

\* -------------------------------------------------------- specifiers
ClauseHolds(c, v) ==
  CASE c[1] = "==" -> Version(v) = c[2]
    [] c[1] = ">=" -> Version(v) >= c[2]
    [] c[1] = "<"  -> Version(v) < c[2]
    [] OTHER -> FALSE

\* SpecifierSet(s).contains(v, prereleases=True): the conjunction of the clauses
contains(spec, v) == \A c \in spec : ClauseHolds(c, v)

\* `not spec or str(spec) == ""`
IsEmptySpec(spec) == spec = {}

AnySpec == {}
Eq1 == {<<"==", 1>>}
Ge2 == {<<">=", 2>>}
Ge2Lt2 == {<<">=", 2>>, <<"<", 2>>}

\* ----------------------------------------------------------- markers
\* a marker string is its sequence of tokens
NoMarker == <<>>
ExtraMarker == <<"extra", "==", "'bar'">>
OtherMarker == <<"python_version", "<", "'3'">>

\* `"extra ==" in marker`
MentionsExtra(marker) ==
  \E i \in 1 .. Len(marker) - 1 : marker[i] = "extra" /\ marker[i + 1] = "=="

\* ------------------------------------------------------ Metadata Port
\* A knowledge graph: versions[name] is the version list as stored (in no
\* order), requires[<<name, version>>] the REQUIRES edges <<dep, spec, marker>>.
\* KGClient._run_query as it stands during and after a call: the attempts made,
\* last_err, whether the call returned the records; log (a history) lists what
\* each attempt ended in.
RqFresh == [attempt |-> 0, last_err |-> "none", log |-> <<>>, returned |-> FALSE]

\* a call starts afresh once the call before it has returned
RqBegin(r) == IF r.returned THEN RqFresh ELSE r

\* `for attempt in range(1, RETRIES + 1)` has a round left
LoopRuns(r) == r.attempt < RETRIES

\* the attempt raises: `last_err = e`
AttemptFails(r, e) ==
  [attempt |-> r.attempt + 1, last_err |-> e, log |-> Append(r.log, e), returned |-> FALSE]

\* the attempt succeeds: `return res.records`
AttemptReturns(r) ==
  [attempt |-> r.attempt + 1, last_err |-> r.last_err, log |-> Append(r.log, "ok"),
   returned |-> TRUE]

\* faulty variant: the error is swallowed
AfterLoop_ReturnsEmpty(r) == "return_empty"

\* after the loop: `if last_err: raise last_err`, else `return []`
AfterLoop(r) == IF r.last_err # "none" THEN "raise" ELSE "return_empty"

\* the graph whose every query has no records
EmptyGraph == [versions |-> [n \in {} |-> n], requires |-> [n \in {} |-> n]]

get_versions(g, name) ==
  IF name \in DOMAIN g.versions THEN sort_versions(g.versions[name]) ELSE <<>>

get_requires(g, name, version) ==
  IF <<name, version>> \in DOMAIN g.requires THEN g.requires[<<name, version>>] ELSE <<>>

\* ----------------------------------------------------- data structures
PackageSelection(name, version, source) ==
  [name |-> name, version |-> version, source |-> source]

ResolutionResult(ok, plan, conflicts) ==
  [ok |-> ok, plan |-> plan, conflicts |-> conflicts]

EmptyDict == [n \in {} |-> n]

Target(name, spec, tag) == [name |-> name, spec |-> spec, tag |-> tag]

\* the conflict messages, by the f-string that builds each
Message(kind, name, spec) == [kind |-> kind, name |-> name, spec |-> spec]
MsgMaxPackages == Message("max_packages", <<>>, {})
MsgMaxQueue == Message("max_queue", <<>>, {})
\* faulty variant: the message leaves the package out
MsgNoVersions_Anonymous(name) == Message("no_versions", <<>>, {})
MsgNoVersions(name) == Message("no_versions", name, {})
MsgNoMatch(name, spec) == Message("no_match", name, spec)
MsgAllCandidatesConflict(name) == Message("all_candidates_conflict", name, {})
MsgInstalledMismatch(name, spec) == Message("installed_mismatch", name, spec)

\* --------------------------------------------------- parse_requirements
\* A requirement line is <<"req", raw name, specifier>> (what Requirement(line)
\* parses it to), <<"blank">> or <<"comment">>. The result is the dict as the
\* sequence of its items <<name, spec>> in insertion order.
RECURSIVE DictSet(_, _, _)
\* items with items[k] = v: an existing key keeps its place
DictSet(items, k, v) ==
  IF items = <<>> THEN << <<k, v>> >>
  ELSE IF Head(items)[1] = k THEN << <<k, v>> >> \o Tail(items)
  ELSE <<Head(items)>> \o DictSet(Tail(items), k, v)

DictKeys(items) == {items[i][1] : i \in DOMAIN items}

DictGet(items, k) == items[CHOOSE i \in DOMAIN items : items[i][1] = k][2]

RECURSIVE parse_requirements(_)
parse_requirements(lines) ==
  IF lines = <<>> THEN <<>>
  ELSE LET line == Last(lines)
           result == parse_requirements(Front(lines))
       IN IF line[1] # "req" THEN result
          ELSE DictSet(result, normalize_name(line[2]), line[3])

\* ---------------------------------------------------------- resolve_plan
RECURSIVE InitialPlan_RawKeys(_)
\* faulty variant: the keys of current are not normalized
InitialPlan_RawKeys(items) ==
  IF items = <<>> THEN EmptyDict
  ELSE LET k == Last(items)[1]
       IN (k :> PackageSelection(k, Last(items)[2], "existing")) @@ InitialPlan_RawKeys(Front(items))

RECURSIVE InitialPlan(_)
\* the dict comprehension of resolve_plan over current.items(): a later key
\* that normalizes to the same name overwrites
InitialPlan(items) ==
  IF items = <<>> THEN EmptyDict
  ELSE LET k == normalize_name(Last(items)[1])
       IN (k :> PackageSelection(k, Last(items)[2], "existing")) @@ InitialPlan(Front(items))

RECURSIVE InitialQueue(_)
InitialQueue(targets) ==
  IF targets = <<>> THEN <<>>
  ELSE <<Target(normalize_name(Head(targets)[1]), Head(targets)[2], Head(targets)[3])>>
         \o InitialQueue(Tail(targets))

RECURSIVE SelectSeq2(_, _)
\* [v for v in s if spec.contains(v, prereleases=True)]
SelectSeq2(s, spec) ==
  IF s = <<>> THEN <<>>
  ELSE IF contains(spec, Head(s)) THEN <<Head(s)>> \o SelectSeq2(Tail(s), spec)
  ELSE SelectSeq2(Tail(s), spec)

\* faulty variant: newest first also under a specifier
BuildCands_NewestFirst(versions, spec) == SelectSeq2(sort_versions(versions), spec)

\* faulty variant: oldest first also without a specifier
BuildCands_OldestFirst(versions, spec) ==
  TheOne({SelectSeq2(ascending, spec) :
            ascending \in {reversed(descending) : descending \in {sort_versions(versions)}}})

\* the candidate list: every version newest first when unconstrained, else the
\* matching versions oldest first
BuildCands(versions, spec) ==
  IF IsEmptySpec(spec) THEN sort_versions(versions)
  ELSE TheOne({SelectSeq2(ascending, spec) :
                 ascending \in {reversed(descending) :
                                  descending \in {sort_versions(versions)}}})

\* faulty variant: the assigned version is not moved
PreferExisting_Unmoved(cands, name, spec, plan_state) == cands

\* an assignment that still satisfies the specifier goes first
PreferExisting(cands, name, spec, plan_state) ==
  IF name \in DOMAIN plan_state /\ contains(spec, plan_state[name].version)
  THEN <<plan_state[name].version>> \o SeqFilterOut(cands, plan_state[name].version)
  ELSE cands

\* faulty variant: "existing" whenever the version is the one already held
Classify_ByVersion(name, cand, new_plan) ==
  IF name \in DOMAIN new_plan
  THEN IF new_plan[name].version = cand THEN "existing" ELSE "upgrade"
  ELSE "new"

\* the source tag of the entry that assigns cand to name
Classify(name, cand, new_plan) ==
  IF name \in DOMAIN new_plan
  THEN IF new_plan[name].source = "existing" /\ new_plan[name].version = cand
       THEN "existing" ELSE "upgrade"
  ELSE "new"

Assign(plan_state, name, cand) ==
  (name :> PackageSelection(name, cand, Classify(name, cand, plan_state))) @@ plan_state

RECURSIVE EnqueueDeps_AnyMarker(_, _, _)
\* faulty variant: every edge that has a marker is left out
EnqueueDeps_AnyMarker(new_queue, deps, name) ==
  IF deps = <<>> THEN new_queue
  ELSE LET dep == Head(deps)
       IN IF dep[3] # <<>>
          THEN EnqueueDeps_AnyMarker(new_queue, Tail(deps), name)
          ELSE EnqueueDeps_AnyMarker(Append(new_queue,
                                  Target(normalize_name(dep[1]), dep[2], <<"dep-of-">> \o name)),
                           Tail(deps), name)

RECURSIVE EnqueueDeps_AllEdges(_, _, _)
\* faulty variant: the extras-scoped edges are enqueued as well
EnqueueDeps_AllEdges(new_queue, deps, name) ==
  IF deps = <<>> THEN new_queue
  ELSE EnqueueDeps_AllEdges(Append(new_queue,
                                   Target(normalize_name(Head(deps)[1]), Head(deps)[2],
                                          <<"dep-of-">> \o name)),
                            Tail(deps), name)

RECURSIVE EnqueueDeps_Stack(_, _, _)
\* faulty variant: the edges are put at the front of the queue
EnqueueDeps_Stack(new_queue, deps, name) ==
  IF deps = <<>> THEN new_queue
  ELSE LET dep == Head(deps)
       IN IF dep[3] # <<>> /\ MentionsExtra(dep[3])
          THEN EnqueueDeps_Stack(new_queue, Tail(deps), name)
          ELSE EnqueueDeps_Stack(<<Target(normalize_name(dep[1]), dep[2], <<"dep-of-">> \o name)>>
                                   \o new_queue,
                                 Tail(deps), name)

RECURSIVE EnqueueDeps(_, _, _)
\* new_queue with the edges of deps appended, the extras-scoped ones left out
EnqueueDeps(new_queue, deps, name) ==
  IF deps = <<>> THEN new_queue
  ELSE LET dep == Head(deps)
       IN IF dep[3] # <<>> /\ MentionsExtra(dep[3])
          THEN EnqueueDeps(new_queue, Tail(deps), name)
          ELSE EnqueueDeps(Append(new_queue,
                                  Target(normalize_name(dep[1]), dep[2], <<"dep-of-">> \o name)),
                           Tail(deps), name)

\* `if v`: None (version code 0) is falsy
Truthy(v) == v # 0

\* A dfs frame. phase "enter": the call has just been made; "loop": at the head
\* of `for cand in cands`, about to try cands[idx]; "wait": inside the recursive
\* call for cands[idx]. trail (a history, not program state) lists the Targets
\* popped on the branch so far.
Frame(queue_state, plan_state, visited, trail) ==
  [queue_state |-> queue_state, plan_state |-> plan_state, visited |-> visited,
   phase |-> "enter", name |-> <<>>, spec |-> {}, cands |-> <<>>, idx |-> 0,
   trail |-> trail]

QueryVersions(name) == [op |-> "get_versions", name |-> name, version |-> 0]
QueryRequires(name, version) == [op |-> "get_requires", name |-> name, version |-> version]

\* `return False, plan_state, [message]` and `return True, plan_state, []`
\* (the plan is the frame's own plan_state); asked lists the queries issued
\* faulty variant: a failure that carries no message
Failure_NoMessage(message, asked) ==
  [act |-> "return", ok |-> FALSE, conflicts |-> <<>>, asked |-> asked]

Failure(message, asked) ==
  [act |-> "return", ok |-> FALSE, conflicts |-> <<message>>, asked |-> asked]

Success == [act |-> "return", ok |-> TRUE, conflicts |-> <<>>, asked |-> <<>>]

\* an exception leaves the call: SpecifierSet.contains(None) raises TypeError
Raise(asked) == [act |-> "raise", ok |-> FALSE, conflicts |-> <<>>, asked |-> asked]

\* faulty variant: the key is not recorded
AddVisited_Forgets(visited, key) == visited

\* `visited = set(visited); visited.add(key)`
AddVisited(visited, key) == visited \cup {key}

\* dfs from `if not cands` to the head of the candidate loop, for the Target t
\* popped and the candidate list built
DfsCandidates(f, t, cands) ==
  IF cands = <<>>
  THEN Failure(MsgNoMatch(t.name, t.spec), <<QueryVersions(t.name)>>)
  ELSE IF t.name \in DOMAIN f.plan_state /\ ~Truthy(f.plan_state[t.name].version)
  THEN Raise(<<QueryVersions(t.name)>>)
  ELSE [act |-> "loop", asked |-> <<QueryVersions(t.name)>>,
        frame |-> [f EXCEPT !.queue_state = Tail(f.queue_state),
                            !.visited = AddVisited(f.visited, <<t.name, t.spec>>),
                            !.phase = "loop",
                            !.name = t.name,
                            !.spec = t.spec,
                            !.cands = PreferExisting(cands, t.name, t.spec, f.plan_state),
                            !.idx = 1,
                            !.trail = Append(f.trail, t)]]

\* dfs from `if not versions` on, for the version list kg.get_versions returned
DfsVersions(f, t, versions) ==
  IF versions = <<>>
  THEN Failure(MsgNoVersions(t.name), <<QueryVersions(t.name)>>)
  ELSE TheOne({DfsCandidates(f, t, cands) : cands \in {BuildCands(versions, t.spec)}})

\* faulty variant: a plan or a queue of exactly the cap size trips the cap
DfsHead_CapInclusive(g, f) ==
  IF Cardinality(DOMAIN f.plan_state) >= MAX_PACKAGES THEN Failure(MsgMaxPackages, <<>>)
  ELSE IF f.queue_state = <<>> THEN Success
  ELSE IF Len(f.queue_state) >= MAX_QUEUE THEN Failure(MsgMaxQueue, <<>>)
  ELSE
    LET t == Head(f.queue_state)
    IN IF <<t.name, t.spec>> \in f.visited
       THEN [act |-> "skip", asked |-> <<>>,
             frame |-> [f EXCEPT !.queue_state = Tail(f.queue_state),
                                 !.trail = Append(f.trail, t)]]
       ELSE TheOne({DfsVersions(f, t, versions) : versions \in {get_versions(g, t.name)}})

\* dfs from its first line to the head of the candidate loop: what the call
\* does next ("return", "raise", "skip": the recursive call on a visited key,
\* "loop") and the queries it issued.
DfsHead(g, f) ==
  IF Cardinality(DOMAIN f.plan_state) > MAX_PACKAGES THEN Failure(MsgMaxPackages, <<>>)
  ELSE IF f.queue_state = <<>> THEN Success
  ELSE IF Len(f.queue_state) > MAX_QUEUE THEN Failure(MsgMaxQueue, <<>>)
  ELSE
    LET t == Head(f.queue_state)
    IN IF <<t.name, t.spec>> \in f.visited
       THEN [act |-> "skip", asked |-> <<>>,
             frame |-> [f EXCEPT !.queue_state = Tail(f.queue_state),
                                 !.trail = Append(f.trail, t)]]
       ELSE TheOne({DfsVersions(f, t, versions) : versions \in {get_versions(g, t.name)}})

\* the body of the candidate loop up to the recursive call: the child frame
DfsChild(g, f) ==
  LET cand == f.cands[f.idx]
      new_plan == Assign(f.plan_state, f.name, cand)
      deps == get_requires(g, f.name, cand)
      new_queue == EnqueueDeps(f.queue_state, deps, f.name)
  IN Frame(new_queue, new_plan, f.visited, f.trail)

\* ----------------------------------------------------- the entry points
RECURSIVE DictFilterTruthy(_)
\* {k: v for k, v in merged.items() if v}
DictFilterTruthy(items) ==
  IF items = <<>> THEN <<>>
  ELSE IF Truthy(Head(items)[2]) THEN <<Head(items)>> \o DictFilterTruthy(Tail(items))
  ELSE DictFilterTruthy(Tail(items))

RECURSIVE Task1Scan(_, _)
\* the loop of task1_check_single over req_map.items(): the conflict of the
\* first mismatch (contains(None) raises TypeError), or merged after every
\* setdefault
Task1Scan(req_items, merged) ==
  IF req_items = <<>>
  THEN [failed |-> FALSE, raised |-> FALSE, merged |-> merged, conflicts |-> <<>>]
  ELSE LET k == Head(req_items)[1]
           s == Head(req_items)[2]
       IN IF ~IsEmptySpec(s) /\ k \in DictKeys(merged) /\ ~Truthy(DictGet(merged, k))
          THEN [failed |-> FALSE, raised |-> TRUE, merged |-> merged, conflicts |-> <<>>]
          ELSE IF ~IsEmptySpec(s) /\ k \in DictKeys(merged) /\ ~contains(s, DictGet(merged, k))
          THEN [failed |-> TRUE, raised |-> FALSE, merged |-> merged,
                conflicts |-> <<MsgInstalledMismatch(k, s)>>]
          ELSE Task1Scan(Tail(req_items),
                         IF k \in DictKeys(merged) THEN merged ELSE Append(merged, <<k, 0>>))

RECURSIVE ReqTargets(_, _)
\* the "req" targets of task2 and task3: the entries with a specifier whose
\* name is a key of merged
ReqTargets(req_items, merged) ==
  IF req_items = <<>> THEN <<>>
  ELSE LET k == Head(req_items)[1]
           s == Head(req_items)[2]
       IN (IF k \in DictKeys(merged) /\ ~IsEmptySpec(s) THEN << <<k, s, <<"req">> >> >> ELSE <<>>)
          \o ReqTargets(Tail(req_items), merged)

RECURSIVE NewPkgTargets(_)
\* [(name, spec, "target") for name, spec in new_pkgs]
NewPkgTargets(pkgs) ==
  IF pkgs = <<>> THEN <<>>
  ELSE << <<Head(pkgs)[1], Head(pkgs)[2], <<"target">> >> >> \o NewPkgTargets(Tail(pkgs))

Task1Targets(pkgs) == << <<pkgs[1][1], pkgs[1][2], <<"target">> >> >>

Task2Targets(cur, lines, pkgs) ==
  << <<pkgs[1][1], pkgs[1][2], <<"target">> >> >> \o ReqTargets(parse_requirements(lines), cur)

Task3Targets(cur, lines, pkgs) ==
  NewPkgTargets(pkgs) \o ReqTargets(parse_requirements(lines), cur)

\* ------------------------------------------------------------- state
VARIABLES
  kg,         \* the knowledge graph behind the KGClient
  current,    \* the caller's environment: the items <<key, version>> of the dict
  req_lines,  \* the caller's requirement lines
  new_pkgs,   \* the caller's (name, spec) pairs: one for task1 and task2
  entry,      \* the entry point called, "none" before the call
  stack,      \* the dfs frames, the innermost call last
  ret,        \* <<the value the innermost finished dfs call returned>>, or <<>>
  result,     \* the ResolutionResults returned to the caller, one per call
  branch,     \* history: the Targets popped on the branch that returned
  queries,    \* history: the KGClient queries answered, in order
  rq,         \* the latest call of KGClient._run_query
  fn,         \* the latest application of a helper function on its own
  pc          \* "start", "dfs", "done", "raised" (an exception left the call)

vars == <<kg, current, req_lines, new_pkgs, entry, stack, ret, result, branch, queries,
          rq, fn, pc>>

inputs == <<kg, current, req_lines, new_pkgs>>

Top == stack[Len(stack)]

NoCall == [op |-> "none", arg |-> <<>>, out |-> <<>>]

\* -------------------------------------------------------- the inputs
Flat ==
  [versions |-> (PkgA :> <<2, 1, 3>>) @@ (PkgB :> <<1, 3, 2>>),
   requires |-> EmptyDict]

Diamond ==
  [versions |-> (PkgA :> <<1, 2>>) @@ (PkgB :> <<1>>) @@ (PkgC :> <<3, 1, 2>>),
   requires |-> (<<PkgA, 2>> :> << <<PkgC, Eq1, NoMarker>> >>)
             @@ (<<PkgA, 1>> :> << <<PkgC, AnySpec, OtherMarker>> >>)
             @@ (<<PkgB, 1>> :> << <<PkgC, Ge2, NoMarker>> >>)]

Chain ==
  [versions |-> (PkgA :> <<1, 2, 3>>) @@ (PkgB :> <<3, 2, 1>>) @@ (PkgC :> <<2, 3, 1>>)
             @@ (PkgD :> <<1>>),
   requires |-> (<<PkgC, 3>> :> << <<PkgD, AnySpec, NoMarker>>, <<PkgB, Eq1, NoMarker>> >>)
             @@ (<<PkgC, 2>> :> << <<RawB, Ge2, NoMarker>>, <<PkgD, Ge2, ExtraMarker>> >>)
             @@ (<<PkgC, 1>> :> << <<PkgD, Ge2Lt2, NoMarker>> >>)]

Cycle ==
  [versions |-> (PkgA :> <<3, 1, 2>>) @@ (PkgB :> <<1, 2>>),
   requires |-> (<<PkgA, 3>> :> << <<PkgB, Ge2Lt2, NoMarker>> >>)
             @@ (<<PkgA, 2>> :> << <<PkgB, Ge2, NoMarker>> >>)
             @@ (<<PkgA, 1>> :> << <<PkgC, AnySpec, NoMarker>> >>)
             @@ (<<PkgB, 2>> :> << <<PkgA, AnySpec, NoMarker>> >>)
             @@ (<<PkgB, 1>> :> << <<PkgA, Eq1, NoMarker>> >>)]

Graphs == {Flat, Diamond, Chain, Cycle}

\* the environments: each of the keys "A" and "b" absent or at a version
EnvItem(k, v) == IF v = 0 THEN <<>> ELSE << <<k, v>> >>
Environments == {EnvItem(RawA, va) \o EnvItem(PkgB, vb) : va \in 0 .. MaxVer, vb \in 0 .. MaxVer}

TargetSpecs == {AnySpec, Eq1, Ge2}
TargetNames == {PkgA, RawB, PkgC}
NewPkg == TargetNames \X TargetSpecs

ReqNames == {PkgA, <<"B">>}
ReqLine == {<<"req", n, s>> : n \in ReqNames, s \in TargetSpecs}

SeqsUpTo(S, n) == UNION {[1 .. k -> S] : k \in 0 .. n}

Init ==
  /\ kg \in Graphs
  /\ current \in Environments
  /\ req_lines \in SeqsUpTo(ReqLine, MaxReqLines)
  /\ new_pkgs \in SeqsUpTo(NewPkg, MaxTargets)
  /\ entry = "none"
  /\ stack = <<>>
  /\ ret = <<>>
  /\ result = <<>>
  /\ branch = <<>>
  /\ queries = <<>>
  /\ rq = RqFresh
  /\ fn = NoCall
  /\ pc = "start"

\* ------------------------------------------------------------ actions
\* faulty variant: the plan of the call before is carried into this one
resolve_plan_SharedPlan(cur, targets) ==
  /\ stack' = <<Frame(InitialQueue(targets),
                      IF result = <<>> THEN InitialPlan(cur)
                      ELSE InitialPlan(cur) @@ result[Len(result)].plan,
                      {}, <<>>)>>
  /\ pc' = "dfs"
  /\ result' = result

\* resolve_plan up to its call of dfs
resolve_plan(cur, targets) ==
  /\ stack' = <<Frame(InitialQueue(targets), InitialPlan(cur), {}, <<>>)>>
  /\ pc' = "dfs"
  /\ result' = result

\* the bodies of the three entry points
Task1Call ==
  LET scan == Task1Scan(parse_requirements(req_lines), current)
  IN IF scan.raised
     THEN stack' = <<>> /\ pc' = "raised" /\ result' = result
     ELSE IF scan.failed
     THEN /\ result' = Append(result, ResolutionResult(FALSE, EmptyDict, scan.conflicts))
          /\ pc' = "done"
          /\ stack' = <<>>
     ELSE resolve_plan(DictFilterTruthy(scan.merged), Task1Targets(new_pkgs))

Task2Call == resolve_plan(current, Task2Targets(current, req_lines, new_pkgs))

Task3Call == resolve_plan(current, Task3Targets(current, req_lines, new_pkgs))

task1_check_single ==
  /\ pc = "start"
  /\ Len(new_pkgs) = 1
  /\ entry' = "task1"
  /\ Task1Call
  /\ UNCHANGED <<inputs, ret, branch, queries, rq, fn>>

task2_install_single_with_upgrade ==
  /\ pc = "start"
  /\ Len(new_pkgs) = 1
  /\ entry' = "task2"
  /\ Task2Call
  /\ UNCHANGED <<inputs, ret, branch, queries, rq, fn>>

task3_install_multi_with_upgrade ==
  /\ pc = "start"
  /\ entry' = "task3"
  /\ Task3Call
  /\ UNCHANGED <<inputs, ret, branch, queries, rq, fn>>

Return(ok, plan, conflicts, trail) ==
  /\ ret' = <<[ok |-> ok, plan |-> plan, conflicts |-> conflicts, trail |-> trail]>>
  /\ stack' = Front(stack)

\* an exception unwinds every frame and leaves the entry point
Unwind ==
  /\ stack' = <<>>
  /\ ret' = <<>>
  /\ pc' = "raised"

\* the innermost call is about to call KGClient._run_query
QueryPending(f) ==
  \/ f.phase = "enter" /\ DfsHead(kg, f).asked # <<>>
  \/ f.phase = "loop" /\ f.idx <= Len(f.cands)

\* a dfs call from its first line to a return or to the candidate loop, its
\* query answered from g
EnterWith(g) ==
  \E f \in {Top} : \E head \in {DfsHead(g, f)} :
     /\ queries' = queries \o head.asked
     /\ IF head.act = "return"
        THEN Return(head.ok, f.plan_state, head.conflicts, f.trail) /\ pc' = pc
        ELSE IF head.act = "raise"
        THEN Unwind
        ELSE /\ stack' = [stack EXCEPT ![Len(stack)] = head.frame]
             /\ ret' = ret
             /\ pc' = pc

\* one round of the loop, its query answered from g: assign cands[idx], take
\* its requirements, recurse
TryWith(g) ==
  /\ stack' = Append([stack EXCEPT ![Len(stack)].phase = "wait"], DfsChild(g, Top))
  /\ queries' = Append(queries, QueryRequires(Top.name, Top.cands[Top.idx]))

\* a dfs call runs from its first line to a return or to the candidate loop
\* (an attempt of its query, if it makes one, succeeds)
DfsEnter ==
  /\ pc = "dfs" /\ stack # <<>> /\ Top.phase = "enter"
  /\ \E pending \in {QueryPending(Top)} :
       IF pending
       THEN LoopRuns(RqBegin(rq)) /\ rq' = AttemptReturns(RqBegin(rq))
       ELSE rq' = rq
  /\ EnterWith(kg)
  /\ UNCHANGED <<inputs, entry, result, branch, fn>>

\* one round of the loop (an attempt of its query succeeds)
DfsTry ==
  /\ pc = "dfs" /\ stack # <<>> /\ Top.phase = "loop" /\ Top.idx <= Len(Top.cands)
  /\ LoopRuns(RqBegin(rq))
  /\ rq' = AttemptReturns(RqBegin(rq))
  /\ TryWith(kg)
  /\ UNCHANGED <<inputs, entry, ret, result, branch, fn, pc>>

\* faulty variant: the loop goes on to the next candidate after a success too
DfsResume_TriesOn ==
  /\ pc = "dfs" /\ stack # <<>> /\ Top.phase = "wait" /\ ret # <<>>
  /\ stack' = [stack EXCEPT ![Len(stack)].phase = "loop",
                            ![Len(stack)].idx = Top.idx + 1]
  /\ ret' = <<>>
  /\ UNCHANGED <<inputs, entry, result, branch, queries, rq, fn, pc>>

\* faulty variant: new_plan is plan_state itself, not a copy, so the plan the
\* failed call held stays with the node
DfsResume_SharedPlan ==
  /\ pc = "dfs" /\ stack # <<>> /\ Top.phase = "wait" /\ ret # <<>>
  /\ IF ret[1].ok
     THEN Return(TRUE, ret[1].plan, ret[1].conflicts, ret[1].trail)
     ELSE /\ stack' = [stack EXCEPT ![Len(stack)].phase = "loop",
                                    ![Len(stack)].idx = Top.idx + 1,
                                    ![Len(stack)].plan_state = ret[1].plan]
          /\ ret' = <<>>
  /\ UNCHANGED <<inputs, entry, result, branch, queries, rq, fn, pc>>

\* the recursive call returned: success is passed up, failure moves on
DfsResume ==
  /\ pc = "dfs" /\ stack # <<>> /\ Top.phase = "wait" /\ ret # <<>>
  /\ IF ret[1].ok
     THEN Return(TRUE, ret[1].plan, ret[1].conflicts, ret[1].trail)
     ELSE /\ stack' = [stack EXCEPT ![Len(stack)].phase = "loop",
                                    ![Len(stack)].idx = Top.idx + 1]
          /\ ret' = <<>>
  /\ UNCHANGED <<inputs, entry, result, branch, queries, rq, fn, pc>>

\* faulty variant: the plan returned holds the last candidate tried
DfsExhausted_LeaksAssignment ==
  /\ pc = "dfs" /\ stack # <<>> /\ Top.phase = "loop" /\ Top.idx > Len(Top.cands)
  /\ Return(FALSE, Assign(Top.plan_state, Top.name, Last(Top.cands)),
            <<MsgAllCandidatesConflict(Top.name)>>, Top.trail)
  /\ UNCHANGED <<inputs, entry, result, branch, queries, rq, fn, pc>>

\* the loop ran out of candidates
DfsExhausted ==
  /\ pc = "dfs" /\ stack # <<>> /\ Top.phase = "loop" /\ Top.idx > Len(Top.cands)
  /\ Return(FALSE, Top.plan_state, <<MsgAllCandidatesConflict(Top.name)>>, Top.trail)
  /\ UNCHANGED <<inputs, entry, result, branch, queries, rq, fn, pc>>

\* resolve_plan wraps what the outermost dfs call returned
ResolveReturn ==
  /\ pc = "dfs" /\ stack = <<>> /\ ret # <<>>
  /\ result' = Append(result, ResolutionResult(ret[1].ok, ret[1].plan, ret[1].conflicts))
  /\ branch' = ret[1].trail
  /\ ret' = <<>>
  /\ pc' = "done"
  /\ UNCHANGED <<inputs, entry, stack, queries, rq, fn>>

Next ==
  \/ task1_check_single
  \/ task2_install_single_with_upgrade
  \/ task3_install_multi_with_upgrade
  \/ DfsEnter
  \/ DfsTry
  \/ DfsResume
  \/ DfsExhausted
  \/ ResolveReturn

Spec == Init /\ [][Next]_vars

\* ------------------------------------------------- the call runs on
InitLive ==
  /\ kg \in Graphs
  /\ current \in {<<>>, << <<PkgB, 1>> >>}
  /\ req_lines = <<>>
  /\ new_pkgs \in SeqsUpTo(NewPkg, MaxTargets)
  /\ entry = "none"
  /\ stack = <<>>
  /\ ret = <<>>
  /\ result = <<>>
  /\ branch = <<>>
  /\ queries = <<>>
  /\ rq = RqFresh
  /\ fn = NoCall
  /\ pc = "start"

\* a call that can take a step takes it: the interpreter does not stop
SpecLive == InitLive /\ [][Next]_vars /\ WF_vars(Next)

\* ------------------------------------- environments with None entries
\* the environments that hold "A" or "b" (or both) with the version None
EnvOptions(k) == {<<>>} \cup {<< <<k, v>> >> : v \in 0 .. MaxVer - 1}

EnvironmentsNone ==
  {e \in {a \o b : a \in EnvOptions(RawA), b \in EnvOptions(PkgB)} :
     \E i \in DOMAIN e : ~Truthy(e[i][2])}

InitNone ==
  /\ kg \in Graphs
  /\ current \in EnvironmentsNone
  /\ req_lines \in SeqsUpTo(ReqLine, MaxReqLines)
  /\ new_pkgs \in SeqsUpTo(NewPkg, MaxTargets)
  /\ entry = "none"
  /\ stack = <<>>
  /\ ret = <<>>
  /\ result = <<>>
  /\ branch = <<>>
  /\ queries = <<>>
  /\ rq = RqFresh
  /\ fn = NoCall
  /\ pc = "start"

SpecNone == InitNone /\ [][Next]_vars

\* ------------------------------------------------- the call made again
\* the caller makes the same call a second time, the knowledge graph unchanged
Rerun ==
  /\ pc = "done" /\ Len(result) = 1
  /\ CASE entry = "task1" -> Task1Call
       [] entry = "task2" -> Task2Call
       [] OTHER -> Task3Call
  /\ ret' = <<>>
  /\ branch' = <<>>
  /\ queries' = <<>>
  /\ rq' = RqFresh
  /\ UNCHANGED <<inputs, entry, fn>>

NextTwice == Next \/ Rerun

SpecTwice == Init /\ [][NextTwice]_vars

\* ------------------------------------------ a knowledge graph that fails
\* what driver.execute_query may raise
Errors == {"timeout", "unavailable"}

\* an attempt of the pending query raises and is caught
RunQueryAttemptFails ==
  /\ pc = "dfs" /\ stack # <<>> /\ QueryPending(Top)
  /\ LoopRuns(RqBegin(rq))
  /\ \E e \in Errors : rq' = AttemptFails(RqBegin(rq), e)
  /\ UNCHANGED <<inputs, entry, stack, ret, result, branch, queries, fn, pc>>

\* the loop of the pending query is over without a return: the last error is
\* raised out of get_versions / get_requires, dfs, resolve_plan and the entry
\* point (were [] returned, the search would go on with no records)
RunQueryGivesUp ==
  /\ pc = "dfs" /\ stack # <<>> /\ QueryPending(Top)
  /\ ~LoopRuns(RqBegin(rq))
  /\ IF AfterLoop(rq) = "raise"
     THEN Unwind /\ UNCHANGED <<queries, rq>>
     ELSE /\ rq' = [rq EXCEPT !.returned = TRUE]
          /\ IF Top.phase = "enter" THEN EnterWith(EmptyGraph)
             ELSE TryWith(EmptyGraph) /\ UNCHANGED <<ret, pc>>
  /\ UNCHANGED <<inputs, entry, result, branch, fn>>

InitFlaky ==
  /\ kg \in Graphs
  /\ current = <<>>
  /\ req_lines = <<>>
  /\ new_pkgs \in [1 .. 1 -> NewPkg]
  /\ entry = "none"
  /\ stack = <<>>
  /\ ret = <<>>
  /\ result = <<>>
  /\ branch = <<>>
  /\ queries = <<>>
  /\ rq = RqFresh
  /\ fn = NoCall
  /\ pc = "start"

NextFlaky == Next \/ RunQueryAttemptFails \/ RunQueryGivesUp

SpecFlaky == InitFlaky /\ [][NextFlaky]_vars

\* ------------------------------------------- normalize_name on its own
NameChars == {"a", "B", "_", ".", "-", " "}

RawNames == UNION {[1 .. n -> NameChars] : n \in 0 .. MaxNameLen}

\* no entry point is running: only the helper function is applied
Idle ==
  /\ kg = EmptyGraph
  /\ current = <<>>
  /\ req_lines = <<>>
  /\ new_pkgs = <<>>
  /\ entry = "none"
  /\ stack = <<>>
  /\ ret = <<>>
  /\ result = <<>>
  /\ branch = <<>>
  /\ queries = <<>>
  /\ rq = RqFresh

InitNames ==
  /\ Idle
  /\ \E x \in RawNames : fn = [op |-> "none", arg |-> <<x>>, out |-> <<>>]
  /\ pc = "normalize_name"

\* normalize_name applied to the name drawn and to a second name, and to its
\* own result
ApplyNormalizeName ==
  /\ pc = "normalize_name"
  /\ \E y \in RawNames :
       LET x == fn.arg[1]
       IN fn' = [op |-> "normalize_name", arg |-> <<x, y>>,
                 out |-> <<normalize_name(x), normalize_name(y),
                           normalize_name(normalize_name(x))>>]
  /\ pc' = "returned"
  /\ UNCHANGED <<inputs, entry, stack, ret, result, branch, queries, rq>>

NextNames == ApplyNormalizeName

SpecNames == InitNames /\ [][NextNames]_vars

\* -------------------------------------------- sort_versions on its own
\* "1", "2", "1.0" (the version 1 again) and three strings that are no version
VersionStrings == {1, 2, 11, -1, -2, -3}

InitSort ==
  /\ Idle
  /\ \E vs \in SeqsUpTo(VersionStrings, MaxListLen) :
       fn = [op |-> "none", arg |-> <<vs>>, out |-> <<>>]
  /\ pc = "sort_versions"

\* sort_versions applied to the list drawn: the descending list, and the
\* ascending list dfs takes from it
ApplySortVersions ==
  /\ pc = "sort_versions"
  /\ fn' = [op |-> "sort_versions", arg |-> fn.arg,
            out |-> <<sort_versions(fn.arg[1]), reversed(sort_versions(fn.arg[1]))>>]
  /\ pc' = "returned"
  /\ UNCHANGED <<inputs, entry, stack, ret, result, branch, queries, rq>>

NextSort == ApplySortVersions

SpecSort == InitSort /\ [][NextSort]_vars

\* ======================================================== properties
Done == pc = "done"
\* the result of the latest call
Res == result[Len(result)]

\* the targets and the environment the entry point hands to resolve_plan
CalledTargets ==
  CASE entry = "task1" -> Task1Targets(new_pkgs)
    [] entry = "task2" -> Task2Targets(current, req_lines, new_pkgs)
    [] OTHER -> Task3Targets(current, req_lines, new_pkgs)

PrecheckFailed == entry = "task1" /\ Task1Scan(parse_requirements(req_lines), current).failed

Plan0 == InitialPlan(current)

\* the single caller target, normalized
TheTarget == InitialQueue(NewPkgTargets(new_pkgs))[1]

NonExtraEdges(name, version) ==
  {e \in Range(get_requires(kg, name, version)) : ~MentionsExtra(e[3])}

Satisfying(name, spec) == {v \in Range(get_versions(kg, name)) : contains(spec, v)}

\* the packages the search assigned on the branch that returned
Assigned == {branch[i].name : i \in DOMAIN branch}

\* C1: in a successful result the plan's version of every Target popped on the
\* successful branch satisfies that Target's specifier.
C1_PlanSatisfiesEveryTarget ==
  (Done /\ Res.ok) =>
    \A i \in DOMAIN branch :
      /\ branch[i].name \in DOMAIN Res.plan
      /\ contains(branch[i].spec, Res.plan[branch[i].name].version)

\* C2: in a successful result every non-extras dependency edge of the plan's
\* version of every package the search assigned is satisfied by the plan.
C2_PlanSatisfiesEveryEdge ==
  (Done /\ Res.ok) =>
    \A p \in Assigned :
      \A e \in NonExtraEdges(p, Res.plan[p].version) :
        /\ normalize_name(e[1]) \in DOMAIN Res.plan
        /\ contains(e[2], Res.plan[normalize_name(e[1])].version)

\* C3: a successful check-only result holds every environment package other
\* than the candidate at its environment version, tagged "existing".
C3_CheckOnlyKeepsEnvironment ==
  (Done /\ entry = "task1" /\ Res.ok) =>
    \A k \in DOMAIN Plan0 :
      k # TheTarget.name => (k \in DOMAIN Res.plan /\ Res.plan[k] = Plan0[k])

\* the case of C4: one caller target and nothing else to resolve, one candidate
\* version, whose only edge names a package with no version in the edge's range
C4_Case(dep) ==
  /\ Done /\ ~PrecheckFailed
  /\ Len(new_pkgs) = 1 /\ Len(CalledTargets) = 1
  /\ LET cands == PreferExisting(BuildCands(get_versions(kg, TheTarget.name), TheTarget.spec),
                                 TheTarget.name, TheTarget.spec, Plan0)
     IN /\ Len(cands) = 1
        /\ \E e \in NonExtraEdges(TheTarget.name, cands[1]) :
             /\ get_requires(kg, TheTarget.name, cands[1]) = <<e>>
             /\ normalize_name(e[1]) = dep
             /\ dep # TheTarget.name
             /\ Satisfying(dep, e[2]) = {}
             /\ (dep \in DOMAIN Plan0 => ~contains(e[2], Plan0[dep].version))

\* C4: when the only candidate of the target needs a dependency that has no
\* version in range, the result fails with a conflict that cites the dependency.
C4_ConflictCitesDependency ==
  \A dep \in {PkgA, PkgB, PkgC, PkgD} :
    C4_Case(dep) =>
      (~Res.ok /\ \E i \in DOMAIN Res.conflicts : Res.conflicts[i].name = dep)

\* the case of C5: a single-target call whose target has no version in the graph
C5_Case == Done /\ Len(new_pkgs) = 1 /\ get_versions(kg, TheTarget.name) = <<>>

C5_Outcome ==
  /\ ~Res.ok
  /\ \E i \in DOMAIN Res.conflicts :
       Res.conflicts[i].kind = "no_versions" /\ Res.conflicts[i].name = TheTarget.name
  /\ \A i \in DOMAIN queries :
       ~(queries[i].op = "get_requires" /\ queries[i].name = TheTarget.name)

\* C5 as stated: any single-target call on a package without versions fails
\* with the no-versions conflict for it, and its requirements are never queried.
C5_Original == C5_Case => C5_Outcome

\* C5, amended: the same, for the calls that reach the search (the pre-check of
\* check_conflict found no violated requirement line, and the initial plan is
\* within the package cap).
C5_NoVersionsIsTerminal ==
  (C5_Case /\ ~PrecheckFailed /\ Cardinality(DOMAIN Plan0) <= MAX_PACKAGES) => C5_Outcome

C5_Witness ==
  /\ C5_Case /\ ~PrecheckFailed /\ entry = "task2" /\ req_lines # <<>>
  /\ Res.conflicts = <<MsgNoVersions(TheTarget.name)>>

\* the case of C6: no requirement lines, one target, on an environment package
\* whose version is out of range, and every listed version is free of edges
C6_Case ==
  /\ Done /\ req_lines = <<>> /\ Len(new_pkgs) = 1
  /\ TheTarget.name \in DOMAIN Plan0
  /\ ~contains(TheTarget.spec, Plan0[TheTarget.name].version)
  /\ Satisfying(TheTarget.name, TheTarget.spec) # {}
  /\ \A v \in Range(get_versions(kg, TheTarget.name)) : get_requires(kg, TheTarget.name, v) = <<>>

Oldest(S) == CHOOSE v \in S : \A w \in S : v <= w

\* C6: then the result is ok and holds the package at the oldest listed version
\* in range, tagged "upgrade".
C6_OldestSatisfyingUpgrade ==
  C6_Case =>
    /\ Res.ok
    /\ TheTarget.name \in DOMAIN Res.plan
    /\ Res.plan[TheTarget.name] =
         PackageSelection(TheTarget.name,
                          Oldest(Satisfying(TheTarget.name, TheTarget.spec)), "upgrade")

C6_Witness ==
  /\ C6_Case
  /\ Cardinality(Satisfying(TheTarget.name, TheTarget.spec)) >= 2
  /\ Res.plan[TheTarget.name].source = "upgrade"

\* every node at its candidate loop whose package was assigned, in the incoming
\* plan, a version in the Target's range has that version as first candidate
C7_AssignedGoesFirst ==
  \A i \in DOMAIN stack :
    LET f == stack[i]
    IN (f.phase \in {"loop", "wait"} /\ f.name \in DOMAIN f.plan_state
          /\ contains(f.spec, f.plan_state[f.name].version))
       => f.cands[1] = f.plan_state[f.name].version

C7_KeptCase ==
  /\ Done /\ req_lines = <<>> /\ Len(new_pkgs) = 1
  /\ TheTarget.name \in DOMAIN Plan0
  /\ contains(TheTarget.spec, Plan0[TheTarget.name].version)

C7_Kept == Res.ok /\ TheTarget.name \in DOMAIN Res.plan
           /\ Res.plan[TheTarget.name] = Plan0[TheTarget.name]

\* C7 as stated: the assigned version goes first, and a target the environment
\* already satisfies always resolves to the environment's version, "existing".
C7_Original == C7_AssignedGoesFirst /\ (C7_KeptCase => C7_Kept)

\* C7, amended: the assigned version goes first at every node that reaches its
\* candidate loop; and a target the environment already satisfies resolves to
\* the environment's version, "existing", when the graph lists a version in
\* range and lists no non-extras edge for the environment's version (and the
\* initial plan is within the package cap).
C7_ExistingPreferred ==
  /\ C7_AssignedGoesFirst
  /\ (C7_KeptCase /\ Satisfying(TheTarget.name, TheTarget.spec) # {}
        /\ NonExtraEdges(TheTarget.name, Plan0[TheTarget.name].version) = {}
        /\ Cardinality(DOMAIN Plan0) <= MAX_PACKAGES)
     => C7_Kept

C7_Witness ==
  /\ C7_KeptCase /\ C7_Kept
  /\ Satisfying(TheTarget.name, TheTarget.spec) # {}
  /\ \E v \in Satisfying(TheTarget.name, TheTarget.spec) : v < Plan0[TheTarget.name].version

\* C8: a successful result has no conflict message, a failed one exactly one.
C8_OneConflictPerFailure ==
  Done => (IF Res.ok THEN Res.conflicts = <<>> ELSE Len(Res.conflicts) = 1)

C8_Witness ==
  /\ Done /\ ~Res.ok /\ Len(queries) >= 4
  /\ Res.conflicts[1].kind = "all_candidates_conflict"

\* C9: a successful plan has an entry for every caller and "req" target, for
\* every Target popped on the branch, and for every non-extras dependency of
\* every version the plan holds for a package the search assigned.
C9_PlanCoversBranch ==
  (Done /\ Res.ok) =>
    /\ \A i \in DOMAIN CalledTargets : normalize_name(CalledTargets[i][1]) \in DOMAIN Res.plan
    /\ Assigned \subseteq DOMAIN Res.plan
    /\ \A p \in Assigned \cap DOMAIN Res.plan :
         \A e \in NonExtraEdges(p, Res.plan[p].version) : normalize_name(e[1]) \in DOMAIN Res.plan

C9_Witness ==
  /\ Done /\ Res.ok
  /\ \E i \in DOMAIN branch : branch[i].tag = <<"req">>
  /\ \E i \in DOMAIN branch : Head(branch[i].tag) = "dep-of-"

\* C10: a successful result of plan_single_upgrade or plan_multi_upgrade still
\* has every package of the input environment as a key of its plan.
C10_NoPackageRemoved ==
  (Done /\ Res.ok /\ entry \in {"task2", "task3"}) =>
    \A i \in DOMAIN current : normalize_name(current[i][1]) \in DOMAIN Res.plan

C10_Witness ==
  /\ Done /\ Res.ok /\ entry = "task2" /\ Len(current) = 2
  /\ \E k \in DOMAIN Res.plan : Res.plan[k].source = "upgrade"

ReqMap == parse_requirements(req_lines)

EnvItemsOf(name) == {i \in DOMAIN current : normalize_name(current[i][1]) = name}

\* C12: when check_conflict is called with a requirement entry that has a
\* specifier and names a package the environment holds at a version outside the
\* specifier, the call returns ok=false with a conflict naming that package and
\* no query was issued.
C12_PrecheckFailsFast ==
  \A i \in DOMAIN ReqMap :
    (/\ entry = "task1"
     /\ ~IsEmptySpec(ReqMap[i][2])
     /\ \E j \in EnvItemsOf(ReqMap[i][1]) : ~contains(ReqMap[i][2], current[j][2]))
    => /\ Done /\ ~Res.ok
       /\ \E m \in DOMAIN Res.conflicts : Res.conflicts[m].name = ReqMap[i][1]
       /\ queries = <<>>

RECURSIVE ExpectedReqTargets(_)
\* one "req" Target per requirement entry that has a specifier and whose
\* package the environment holds
ExpectedReqTargets(req_items) ==
  IF req_items = <<>> THEN <<>>
  ELSE (IF ~IsEmptySpec(Head(req_items)[2]) /\ EnvItemsOf(Head(req_items)[1]) # {}
        THEN << <<Head(req_items)[1], Head(req_items)[2], <<"req">> >> >> ELSE <<>>)
       \o ExpectedReqTargets(Tail(req_items))

\* C13: in plan_single_upgrade and plan_multi_upgrade the Target list is the
\* caller's targets followed by one "req" Target per requirement entry (with a
\* specifier) whose package is present in the environment, and by nothing for
\* an entry whose package is absent.
C13_ReqTargetsOfPresentPackages ==
  entry \in {"task2", "task3"} =>
    CalledTargets = NewPkgTargets(new_pkgs) \o ExpectedReqTargets(ReqMap)

\* C14: an environment entry whose version is None is ignored by every entry
\* point: no plan of the search, from the initial one to the returned one,
\* holds a package at the version None.
C14_NoneEntriesIgnored ==
  /\ \A i \in DOMAIN stack :
       \A k \in DOMAIN stack[i].plan_state : Truthy(stack[i].plan_state[k].version)
  /\ Done => \A k \in DOMAIN Res.plan : Truthy(Res.plan[k].version)

IsSeparator(c) == c \in {"_", ".", "-"}

RECURSIVE CollapseRuns(_)
\* every run of underscores, dots and hyphens of s as one hyphen
CollapseRuns(s) ==
  IF s = <<>> THEN <<>>
  ELSE IF IsSeparator(Head(s))
       THEN IF Tail(s) # <<>> /\ IsSeparator(Head(Tail(s))) THEN CollapseRuns(Tail(s))
            ELSE <<"-">> \o CollapseRuns(Tail(s))
       ELSE <<Head(s)>> \o CollapseRuns(Tail(s))

\* x and y differ only in letter case, surrounding whitespace and the runs of
\* separators between their parts
SameName(x, y) == CollapseRuns(lower(strip(x))) = CollapseRuns(lower(strip(y)))

\* C15: normalize_name sends two raw names that differ only in letter case,
\* surrounding whitespace or the separator runs between their parts to the same
\* string, and normalize_name(normalize_name(x)) = normalize_name(x).
C15_NormalizeNameCanonical ==
  fn.op = "normalize_name" =>
    /\ SameName(fn.arg[1], fn.arg[2]) => fn.out[1] = fn.out[2]
    /\ fn.out[3] = fn.out[1]

\* the environment with every key replaced by its normalized spelling
Respelled(cur) == [i \in DOMAIN cur |-> <<normalize_name(cur[i][1]), cur[i][2]>>]

\* C16: the call behaves as it does on the environment whose keys are spelled in
\* normalized form: the same outcome of the check-only pre-check, the same
\* "req" Targets, the same initial plan (hence the same search and result).
C16_EnvironmentKeySpellingIrrelevant ==
  entry # "none" =>
    /\ Task1Scan(ReqMap, current).failed = Task1Scan(ReqMap, Respelled(current)).failed
    /\ ReqTargets(ReqMap, current) = ReqTargets(ReqMap, Respelled(current))
    /\ InitialPlan(current) = InitialPlan(Respelled(current))

\* C17: a query makes at most RETRIES attempts; it returns at its first
\* successful attempt; when every attempt failed, the error of the last attempt
\* leaves the resolution call, which returns no result; and a result that
\* reports "no versions" for a package is about a package the graph does not
\* list.
C17_RetriesThenRaises ==
  /\ rq.attempt <= RETRIES /\ Len(rq.log) = rq.attempt
  /\ rq.returned =>
       /\ rq.log[rq.attempt] = "ok"
       /\ \A i \in 1 .. rq.attempt - 1 : rq.log[i] \in Errors
  /\ pc = "raised" =>
       /\ rq.attempt = RETRIES /\ ~rq.returned
       /\ \A i \in 1 .. RETRIES : rq.log[i] \in Errors
       /\ rq.last_err = rq.log[RETRIES]
       /\ result = <<>>
  /\ Done =>
       /\ rq.attempt > 0 => rq.returned
       /\ \A m \in DOMAIN Res.conflicts :
            Res.conflicts[m].kind = "no_versions"
              => get_versions(kg, Res.conflicts[m].name) = <<>>

C17_Witness ==
  /\ pc = "raised" /\ Len(queries) >= 2
  /\ rq.log = <<"timeout", "timeout", "unavailable">>

\* the calls of dfs on the stack that expanded a Target
Expanding == {i \in DOMAIN stack : stack[i].phase \in {"loop", "wait"}}

\* on every branch each (name, specifier) pair is expanded at most once
C18_ExpandedOnce ==
  \A i \in Expanding : \A j \in Expanding :
    i < j => <<stack[i].name, stack[i].spec>> # <<stack[j].name, stack[j].spec>>

\* C18: every resolution call ends, in success or failure, whatever the graph
\* (cycles and repeated requirements included), and on every branch each
\* (name, specifier) pair is expanded at most once.
C18_Terminates == []C18_ExpandedOnce /\ <>(Done /\ Len(result) = 1)

C18_Witness ==
  /\ kg = Cycle /\ Done /\ Res.ok
  /\ \E i \in DOMAIN branch : \E j \in DOMAIN branch :
       i < j /\ branch[i].name = branch[j].name /\ branch[i].spec = branch[j].spec

SortKeys == {VersionKey(v) : v \in VersionStrings}

Malformed == {v \in VersionStrings : ~WellFormed(v)}

Occurrences(s, x) == Cardinality({i \in DOMAIN s : s[i] = x})

\* the order of the sort keys is total and transitive (two strings tie exactly
\* when they have the same key: both spell the same version)
C19_TotalOrder ==
  /\ \A k1 \in SortKeys : \A k2 \in SortKeys :
       /\ (KeyLess(k1, k2) \/ k1 = k2 \/ KeyLess(k2, k1))
       /\ ~(KeyLess(k1, k2) /\ KeyLess(k2, k1))
       /\ ~(KeyLess(k1, k2) /\ k1 = k2)
  /\ \A k1 \in SortKeys : \A k2 \in SortKeys : \A k3 \in SortKeys :
       (KeyLess(k1, k2) /\ KeyLess(k2, k3)) => KeyLess(k1, k3)

\* C19: the order sort_versions uses is total; every string that is no version
\* comes after every well-formed version; such strings are ordered among
\* themselves as strings; the list returned holds the elements of the input in
\* descending order, and the ascending list is that list reversed.
C19_SortOrder ==
  /\ C19_TotalOrder
  /\ \A w \in VersionStrings \ Malformed : \A m \in Malformed :
       KeyLess(VersionKey(w), VersionKey(m))
  /\ \A m1 \in Malformed : \A m2 \in Malformed :
       KeyLess(VersionKey(m1), VersionKey(m2)) <=> StrLess(MalformedText(m1), MalformedText(m2))
  /\ fn.op = "sort_versions" =>
       LET input == fn.arg[1]
           descending == fn.out[1]
           ascending == fn.out[2]
           n == Len(input)
       IN /\ Len(descending) = n /\ Len(ascending) = n
          /\ \A v \in VersionStrings : Occurrences(descending, v) = Occurrences(input, v)
          /\ \A i \in 1 .. n : \A j \in 1 .. n :
               i < j => ~KeyLess(VersionKey(descending[i]), VersionKey(descending[j]))
          /\ \A i \in 1 .. n : \A j \in 1 .. n :
               i < j => ~KeyLess(VersionKey(ascending[j]), VersionKey(ascending[i]))
          /\ \A i \in 1 .. n : ascending[i] = descending[n + 1 - i]

C19_Witness ==
  /\ fn.op = "sort_versions"
  /\ fn.arg[1] = <<1, -1, 11>>
  /\ fn.out[1] = <<-1, 1, 11>>
  /\ fn.out[2] = <<11, 1, -1>>

\* the Targets a fresh child call got on top of its parent's queue
Added(f, c) == SubSeq(c.queue_state, Len(f.queue_state) + 1, Len(c.queue_state))

\* the normalized names of the caller and "req" Targets
CalledNames == {normalize_name(CalledTargets[i][1]) : i \in DOMAIN CalledTargets}

\* C20: the queue handed to the recursive call is the remaining queue followed
\* by one Target, tagged dep-of-<name>, per edge of the chosen version whose
\* marker does not mention an extra, and by none for an edge whose marker does;
\* a package is queried only as a Target of the call or as the end of such an
\* edge of a version tried before, and enters the plan only when tried.
C20_ExtrasEdgesNeverEnqueued ==
  /\ \A i \in 1 .. Len(stack) - 1 :
       LET f == stack[i]
           c == stack[i + 1]
           deps == get_requires(kg, f.name, f.cands[f.idx])
           plain == {j \in DOMAIN deps : ~MentionsExtra(deps[j][3])}
       IN (f.phase = "wait" /\ c.phase = "enter" /\ c.trail = f.trail) =>
            /\ SubSeq(c.queue_state, 1, Len(f.queue_state)) = f.queue_state
            /\ Len(Added(f, c)) = Cardinality(plain)
            /\ \A m \in DOMAIN Added(f, c) :
                 /\ Added(f, c)[m].tag = <<"dep-of-">> \o f.name
                 /\ \E j \in plain :
                      /\ Added(f, c)[m].name = normalize_name(deps[j][1])
                      /\ Added(f, c)[m].spec = deps[j][2]
            /\ \A j \in plain : \E m \in DOMAIN Added(f, c) :
                 /\ Added(f, c)[m].name = normalize_name(deps[j][1])
                 /\ Added(f, c)[m].spec = deps[j][2]
  /\ \A i \in DOMAIN queries :
       queries[i].op = "get_versions" =>
         \/ queries[i].name \in CalledNames
         \/ \E j \in 1 .. i - 1 :
              /\ queries[j].op = "get_requires"
              /\ \E e \in NonExtraEdges(queries[j].name, queries[j].version) :
                   normalize_name(e[1]) = queries[i].name
  /\ (Done /\ ~PrecheckFailed) =>
       \A k \in DOMAIN Res.plan :
         \/ k \in DOMAIN Plan0
         \/ \E j \in DOMAIN queries : queries[j].op = "get_requires" /\ queries[j].name = k

C20_Witness ==
  /\ Done /\ Res.ok /\ kg = Chain
  /\ \E j \in DOMAIN queries : queries[j] = QueryRequires(PkgC, 2)
  /\ PkgC \in DOMAIN Res.plan /\ Res.plan[PkgC].version = 2
  /\ PkgD \notin DOMAIN Res.plan
  /\ \A j \in DOMAIN queries : queries[j].name # PkgD

\* the entry the child call's plan holds for the package its parent assigned
Entry(f, c) == c.plan_state[f.name]

\* the provenance read off the incoming plan alone
FromIncomingPlan(name, cand, plan_state) ==
  IF name \notin DOMAIN plan_state THEN "new"
  ELSE IF plan_state[name].version = cand THEN "existing"
  ELSE "upgrade"

\* C21: at every assignment the new entry holds the candidate and is tagged
\* "new" when the incoming plan has no entry for the name, "existing" when it
\* holds exactly the candidate version, "upgrade" when it holds another version;
\* so an "upgrade" entry differs in version from the entry it replaced.
C21_ProvenanceFromIncomingPlan ==
  \A i \in 1 .. Len(stack) - 1 :
    LET f == stack[i]
        c == stack[i + 1]
        cand == f.cands[f.idx]
    IN f.phase = "wait" =>
         /\ Entry(f, c).version = cand
         /\ Entry(f, c).source = FromIncomingPlan(f.name, cand, f.plan_state)
         /\ (Entry(f, c).source = "upgrade" => f.plan_state[f.name].version # cand)

\* the innermost call has just been handed a successful result
Succeeded == pc = "dfs" /\ ret # <<>> /\ ret[1].ok

\* C22: at every node the loop index starts at the first candidate and moves
\* on by one, over an unchanged candidate list, only when the recursive call
\* for the current candidate returned a failure; a successful result is passed
\* up unchanged by every node, which tries no further candidate and issues no
\* further query.
C22_FirstSuccessWins ==
  [][/\ \A i \in DOMAIN stack \cap DOMAIN stack' :
          (stack[i].phase \in {"loop", "wait"}) =>
            /\ stack'[i].cands = stack[i].cands
            /\ stack'[i].idx \in {stack[i].idx, stack[i].idx + 1}
            /\ stack'[i].idx # stack[i].idx =>
                 /\ i = Len(stack) /\ stack[i].phase = "wait"
                 /\ ret # <<>> /\ ~ret[1].ok
     /\ \A i \in DOMAIN stack' :
          (stack'[i].phase = "loop" /\ (i \notin DOMAIN stack \/ stack[i].phase = "enter"))
            => stack'[i].idx = 1
     /\ \A i \in DOMAIN stack' :
          (stack'[i].phase = "wait" /\ (i \notin DOMAIN stack \/ stack[i].phase # "wait"))
            => /\ i = Len(stack) /\ stack[i].phase = "loop"
               /\ Len(stack') = i + 1
               /\ queries' = Append(queries, QueryRequires(stack[i].name,
                                                           stack[i].cands[stack[i].idx]))
     /\ Succeeded =>
          /\ queries' = queries
          /\ IF stack = <<>>
             THEN Done' /\ Res'.ok /\ Res'.plan = ret[1].plan
             ELSE stack' = Front(stack) /\ ret' = ret]_vars

C22_Witness ==
  /\ Succeeded /\ stack # <<>>
  /\ Top.phase = "wait" /\ Top.idx >= 2 /\ Top.idx < Len(Top.cands)
  /\ Len(stack) >= 2

\* the version lists as the graph holds them, unsorted
Known(name) == IF name \in DOMAIN kg.versions THEN kg.versions[name] ELSE <<>>

\* the nodes of C23: at the candidate loop for a Target without specifier whose
\* package the incoming plan does not assign
Unconstrained(f) ==
  /\ f.phase \in {"loop", "wait"}
  /\ IsEmptySpec(f.spec)
  /\ f.name \notin DOMAIN f.plan_state

\* the Targets popped on the successful branch after the node f popped its own
PoppedLater(f) == {ret[1].trail[m] : m \in Len(f.trail) + 1 .. Len(ret[1].trail)}

\* the candidate list of such a node is every known version, newest first, and
\* the candidates ahead of the current one have all been tried
C23_AllVersionsNewestFirst ==
  \A i \in DOMAIN stack :
    LET f == stack[i]
    IN Unconstrained(f) =>
         /\ Len(f.cands) = Len(Known(f.name))
         /\ \A v \in Range(Known(f.name)) :
              Occurrences(f.cands, v) = Occurrences(Known(f.name), v)
         /\ \A j, k \in DOMAIN f.cands :
              j < k => KeyGE(VersionKey(f.cands[j]), VersionKey(f.cands[k]))
         /\ \A j \in 1 .. f.idx - 1 :
              \E q \in DOMAIN queries : queries[q] = QueryRequires(f.name, f.cands[j])

\* C23 as stated: moreover the successful plan holds the package at the
\* version such a node chose.
C23_Original ==
  /\ C23_AllVersionsNewestFirst
  /\ Succeeded =>
       \A i \in DOMAIN stack :
         Unconstrained(stack[i]) =>
           ret[1].plan[stack[i].name].version = stack[i].cands[stack[i].idx]

\* C23, amended: for a Target with an empty specifier whose package has no
\* assignment in the incoming plan, the candidate list is all known versions,
\* newest first, and the node succeeds with the newest version whose subtree
\* resolves, every newer one tried before; the successful plan holds the
\* package at that version unless a Target popped later on the branch names the
\* package again.
C23_NewestResolvingVersion ==
  /\ C23_AllVersionsNewestFirst
  /\ Succeeded =>
       \A i \in DOMAIN stack :
         Unconstrained(stack[i]) =>
           \/ ret[1].plan[stack[i].name].version = stack[i].cands[stack[i].idx]
           \/ \E t \in PoppedLater(stack[i]) : t.name = stack[i].name

C23_Witness ==
  /\ Succeeded /\ stack # <<>>
  /\ Unconstrained(Top) /\ Top.idx = 2 /\ Len(Top.cands) = 3
  /\ Len(ret[1].trail) > Len(Top.trail)
  /\ ret[1].plan[Top.name].version = Top.cands[2]
  /\ Top.cands[1] > Top.cands[2]

\* the innermost call is about to skip the Target at the head of its queue
Skipping ==
  /\ pc = "dfs" /\ stack # <<>> /\ Top.phase = "enter"
  /\ Cardinality(DOMAIN Top.plan_state) <= MAX_PACKAGES
  /\ Top.queue_state # <<>> /\ Len(Top.queue_state) <= MAX_QUEUE
  /\ <<Head(Top.queue_state).name, Head(Top.queue_state).spec>> \in Top.visited

\* the plan the innermost call holds satisfies the Target at the head of its queue
HeadSatisfied ==
  LET t == Head(Top.queue_state)
  IN /\ t.name \in DOMAIN Top.plan_state
     /\ contains(t.spec, Top.plan_state[t.name].version)

\* the skip itself: the call goes on with the rest of the queue, plan and
\* visited as they were, no query issued
SkipStep ==
  /\ Len(stack') = Len(stack)
  /\ stack'[Len(stack)].queue_state = Tail(Top.queue_state)
  /\ stack'[Len(stack)].plan_state = Top.plan_state
  /\ stack'[Len(stack)].visited = Top.visited
  /\ stack'[Len(stack)].phase = "enter"
  /\ queries' = queries

C24_SkipLeavesStateAlone == [][Skipping => SkipStep]_vars

\* C24: a Target skipped because its key is in visited is satisfied by the plan
\* at the moment of the skip, and the skip changes neither the plan nor the
\* visited set and issues no query.
C24_SkippedTargetIsSatisfied ==
  /\ [](Skipping => HeadSatisfied)
  /\ C24_SkipLeavesStateAlone

\* what a node works from: its incoming plan, its remaining queue, its visited set
NodeState(f) == <<f.plan_state, f.queue_state, f.visited, f.name, f.spec, f.cands, f.trail>>

\* the child call of f was started from f's own state and the current candidate
StartedFrom(f, c) ==
  LET cand == f.cands[f.idx]
      before == f.trail \o f.queue_state
      all == c.trail \o c.queue_state
  IN /\ DOMAIN c.plan_state = DOMAIN f.plan_state \cup {f.name}
     /\ \A k \in DOMAIN f.plan_state : k # f.name => c.plan_state[k] = f.plan_state[k]
     /\ c.plan_state[f.name].version = cand
     /\ c.visited = IF c.phase = "enter" THEN f.visited
                    ELSE f.visited \cup {<<c.name, c.spec>>}
     /\ Len(all) >= Len(before)
     /\ SubSeq(all, 1, Len(before)) = before
     /\ \A m \in Len(before) + 1 .. Len(all) :
          /\ all[m].tag = <<"dep-of-">> \o f.name
          /\ \E e \in NonExtraEdges(f.name, cand) :
               all[m].name = normalize_name(e[1]) /\ all[m].spec = e[2]

\* C25: what a node works from does not change while its candidates are tried,
\* whatever the subtrees below it do, so every candidate's call is started from
\* the node's incoming plan, remaining queue and visited set and the
\* candidate's own edges; a call returns its own plan or the plan of the
\* successful call below it, never one of a failed subtree.
C25_SiblingsIsolated ==
  /\ [](\A i \in 1 .. Len(stack) - 1 :
          stack[i].phase = "wait" /\ StartedFrom(stack[i], stack[i + 1]))
  /\ [][/\ \A i \in DOMAIN stack \cap DOMAIN stack' :
             stack[i].phase \in {"loop", "wait"} => NodeState(stack'[i]) = NodeState(stack[i])
        /\ (stack # <<>> /\ Len(stack') < Len(stack) /\ pc' = "dfs") =>
             ret'[1].plan = IF Succeeded THEN ret[1].plan ELSE Top.plan_state]_vars

C25_Witness ==
  /\ pc = "dfs" /\ Len(stack) >= 2 /\ Top.phase = "enter" /\ ret = <<>>
  /\ stack[Len(stack) - 1].idx >= 2
  /\ StartedFrom(stack[Len(stack) - 1], Top)
  /\ \E q \in DOMAIN queries :
       /\ queries[q].op = "get_requires"
       /\ queries[q].name \notin DOMAIN Top.plan_state

\* a dfs call is at its first line
Entering == pc = "dfs" /\ stack # <<>> /\ Top.phase = "enter"

OverPackages(f) == Cardinality(DOMAIN f.plan_state) > MAX_PACKAGES

OverQueue(f) == Len(f.queue_state) > MAX_QUEUE

CapConflicts == {<<MsgMaxPackages>>, <<MsgMaxQueue>>}

\* the call at its first line returns a failure with this message and its own
\* plan, its queue untouched and nothing queried
FailsAtOnce(message) ==
  /\ stack' = Front(stack)
  /\ ret' = <<[ok |-> FALSE, plan |-> Top.plan_state, conflicts |-> <<message>>,
               trail |-> Top.trail]>>
  /\ queries' = queries

\* C26: a call whose incoming plan has more than MAX_PACKAGES entries, or
\* whose queue has more than MAX_QUEUE Targets, fails at once with the conflict
\* of that cap, before it pops a Target or queries the graph; a plan or a queue
\* of exactly the cap's size does not trip the cap; and no successful result
\* has a plan of more than MAX_PACKAGES entries.
C26_CapsFailTheNode ==
  /\ [][/\ (Entering /\ OverPackages(Top)) => FailsAtOnce(MsgMaxPackages)
        /\ (Entering /\ ~OverPackages(Top) /\ OverQueue(Top)) => FailsAtOnce(MsgMaxQueue)
        /\ (Entering /\ ~OverPackages(Top) /\ ~OverQueue(Top)) =>
             (ret' = <<>> \/ ret'[1].conflicts \notin CapConflicts)]_vars
  /\ []((Done /\ Res.ok) => Cardinality(DOMAIN Res.plan) <= MAX_PACKAGES)

C26_Witness ==
  /\ pc = "dfs" /\ ret # <<>> /\ stack # <<>>
  /\ ret[1].conflicts = <<MsgMaxPackages>>
  /\ Cardinality(DOMAIN ret[1].plan) = MAX_PACKAGES + 1
  /\ Top.phase = "wait"
  /\ Cardinality(DOMAIN Top.plan_state) = MAX_PACKAGES

C26_QueueCapReached ==
  /\ pc = "dfs" /\ ret # <<>> /\ ret[1].conflicts = <<MsgMaxQueue>>

C26_AtCapSucceeds == Done /\ Res.ok /\ Cardinality(DOMAIN Res.plan) = MAX_PACKAGES

\* the queue resolve_plan starts from: the caller's targets, names normalized
CalledQueue ==
  [i \in 1 .. Len(CalledTargets) |->
     Target(normalize_name(CalledTargets[i][1]), CalledTargets[i][2], CalledTargets[i][3])]

\* the Targets of the edges of the version the node f is trying, in the order
\* the graph returns them, the extras-scoped ones left out
DepTargets(f) ==
  LET deps == get_requires(kg, f.name, f.cands[f.idx])
      plain == SelectSeq(deps, LAMBDA e : ~MentionsExtra(e[3]))
  IN [m \in 1 .. Len(plain) |->
        Target(normalize_name(plain[m][1]), plain[m][2], <<"dep-of-">> \o f.name)]

RECURSIVE DepsOfExpanded(_)
\* the dependencies of the first k nodes of the branch, in expansion order
DepsOfExpanded(k) ==
  IF k = 0 THEN <<>> ELSE DepsOfExpanded(k - 1) \o DepTargets(stack[k])

FromCaller(t) == t.tag \in {<<"target">>, <<"req">>}

\* C27: on every branch the Targets popped so far followed by the Targets
\* still pending are the caller's targets, in the caller's order, followed by
\* the dependencies of the nodes expanded so far, node after node, each node's
\* in the order the graph returned them; a Target is popped from the front, one
\* at a time; so every caller-supplied Target is popped before any dep-of Target.
C27_QueueIsFifo ==
  /\ [](\A k \in DOMAIN stack :
          stack[k].trail \o stack[k].queue_state = CalledQueue \o DepsOfExpanded(k - 1))
  /\ [][\A k \in DOMAIN stack \cap DOMAIN stack' :
          \/ stack'[k].trail = stack[k].trail /\ stack'[k].queue_state = stack[k].queue_state
          \/ /\ stack[k].queue_state # <<>>
             /\ stack'[k].trail = Append(stack[k].trail, Head(stack[k].queue_state))
             /\ stack'[k].queue_state = Tail(stack[k].queue_state)]_vars
  /\ [](\A i, j \in DOMAIN branch : (i < j /\ FromCaller(branch[j])) => FromCaller(branch[i]))

C27_Witness ==
  /\ Done /\ Res.ok
  /\ \E i, j, k \in DOMAIN branch :
       /\ i < j /\ j < k
       /\ branch[i].tag = <<"req">>
       /\ Head(branch[j].tag) = "dep-of-" /\ Head(branch[k].tag) = "dep-of-"
       /\ branch[j].tag # branch[k].tag

\* the version order
Older(v, w) == KeyLess(VersionKey(v), VersionKey(w))

\* C28: in a successful result no package of the environment is held at a
\* version older than its environment version, and an "upgrade" entry of an
\* environment package holds a version newer than the environment's.
C28_NeverDowngrades ==
  (Done /\ Res.ok) =>
    \A i \in DOMAIN current :
      LET k == normalize_name(current[i][1])
      IN k \in DOMAIN Res.plan =>
           /\ ~Older(Res.plan[k].version, current[i][2])
           /\ Res.plan[k].source = "upgrade" => Older(current[i][2], Res.plan[k].version)

\* the packages of the input environment, by normalized name
EnvNames == {normalize_name(current[i][1]) : i \in DOMAIN current}

EnvHolds(k, v) ==
  \E i \in DOMAIN current : normalize_name(current[i][1]) = k /\ current[i][2] = v

ProvenanceSound(plan) ==
  \A k \in DOMAIN plan :
    /\ plan[k].source = "existing" => EnvHolds(k, plan[k].version)
    /\ plan[k].source = "new" => k \notin EnvNames

\* C29: in every plan of the search and in every returned plan an "existing"
\* entry names a package of the input environment at the environment's version,
\* and a "new" entry names a package that is not in the input environment.
C29_ProvenanceSound ==
  /\ \A i \in DOMAIN stack : ProvenanceSound(stack[i].plan_state)
  /\ \A i \in DOMAIN ret : ProvenanceSound(ret[i].plan)
  /\ \A i \in DOMAIN result : ProvenanceSound(result[i].plan)

C29_Witness ==
  /\ Done /\ Res.ok
  /\ \E k \in DOMAIN Res.plan : Res.plan[k].source = "existing"
  /\ \E k \in DOMAIN Res.plan : Res.plan[k].source = "new"
  /\ \E k \in DOMAIN Res.plan : Res.plan[k].source = "upgrade" /\ k \notin EnvNames

\* the version the environment mapping holds under a normalized name (of
\* several keys with that name the last one counts)
EnvVersion(k) ==
  LET at == {i \in DOMAIN current : normalize_name(current[i][1]) = k}
      last == CHOOSE i \in at : \A j \in at : j <= i
  IN current[last][2]

\* the environment as a plan: every package at its version, "existing"
EnvPlan == [k \in EnvNames |-> PackageSelection(k, EnvVersion(k), "existing")]

\* C30: a failed result of resolve_plan holds exactly the plan built from the
\* environment, every entry "existing", whatever the failed branches assigned;
\* and the caller's environment, requirement lines and targets are never
\* modified.
C30_FailureReturnsInitialPlan ==
  /\ []((Done /\ ~Res.ok /\ ~PrecheckFailed) => Res.plan = EnvPlan)
  /\ [][current' = current /\ req_lines' = req_lines /\ new_pkgs' = new_pkgs]_vars

C30_Witness ==
  /\ Done /\ ~Res.ok /\ entry = "task2" /\ Res.plan = EnvPlan /\ Len(current) = 2
  /\ \E q \in DOMAIN queries :
       queries[q].op = "get_requires" /\ queries[q].name \notin DOMAIN Res.plan
  /\ \E q \in DOMAIN queries :
       /\ queries[q].op = "get_requires" /\ queries[q].name \in DOMAIN Res.plan
       /\ queries[q].version # Res.plan[queries[q].name].version

====
